---------------------------- MODULE Spec2Model ----------------------------
(***************************************************************************)
(* Napkin Math NGX: the scraper pipeline (page fetcher, embedded-data      *)
(* extractor, fiscal-year alignment, cache) of src/scraper.py and the rule *)
(* engine (eight metric evaluators, recommendation) of src/analyzer.py.    *)
(*                                                                         *)
(* Optional values (Python's `float | None`) are sequences: <<>> is None   *)
(* and <<x>> is the value x.  Amounts are integers; a computed percentage  *)
(* or ratio is an exact fraction [n, d] with d > 0.                        *)
(***************************************************************************)
EXTENDS Integers, Sequences, FiniteSets, TLC

VARIABLES
    fin,        \* analyze_stock: the StockFinancials handed to the analyzer
    result,     \* analyze_stock: the NapkinResult returned (<<>> before the call)
    page,       \* _extract_financial_data: the page text handed to the extractor
    extracted,  \* _extract_financial_data: <<its return value>> (<<>> before the call)
    _cache,     \* scraper._cache: ticker -> <<record, timestamp>> (<<>>: no entry)
    now,        \* time.time(), in seconds
    calls       \* the calls of fetch_stock_financials: locals and suspension point

vars == <<fin, result, page, extracted, _cache, now, calls>>

analyzerVars == <<fin, result>>
extractorVars == <<page, extracted>>
callVars == <<_cache, now, calls>>

---------------------------------------------------------------------------
(* Optional values and exact fractions *)

None == <<>>

Some(x) == <<x>>

IsNone(o) == o = <<>>

Val(o) == o[1]

Abs(x) == IF x < 0 THEN -x ELSE x

\* the fraction n/d, kept with a positive denominator; d = 0 marks a
\* division by zero (Python raises ZeroDivisionError)
Frac(n, d) == IF d < 0 THEN [n |-> -n, d |-> -d] ELSE [n |-> n, d |-> d]

\* comparisons of a fraction with an integer k
FGe(f, k) == f.n >= k * f.d
FGt(f, k) == f.n > k * f.d
FLe(f, k) == f.n <= k * f.d
FLt(f, k) == f.n < k * f.d

\* comparisons of a fraction with k/10 (the 1.5 threshold of the D/E rule)
FLeTenths(f, k) == 10 * f.n <= k * f.d

---------------------------------------------------------------------------
(* src/models.py *)

GREEN == "green"
YELLOW == "yellow"
RED == "red"

BUY == "BUY"
HOLD == "HOLD"
SELL == "SELL"

NapkinMetric(name, current_value, previous_value, yoy_change, signal, explanation, format_type) ==
    [name |-> name, current_value |-> current_value, previous_value |-> previous_value,
     yoy_change |-> yoy_change, signal |-> signal, explanation |-> explanation,
     format_type |-> format_type]

StockFinancials(ticker, company_name) ==
    [ticker |-> ticker, company_name |-> company_name,
     revenue |-> None, pat |-> None, eps |-> None, dps |-> None,
     total_debt |-> None, shareholder_equity |-> None, operating_cash_flow |-> None,
     prev_revenue |-> None, prev_pat |-> None, prev_eps |-> None, prev_dps |-> None,
     prev_total_debt |-> None, prev_shareholder_equity |-> None,
     prev_operating_cash_flow |-> None,
     current_year |-> "", previous_year |-> ""]

---------------------------------------------------------------------------
(* src/analyzer.py *)

\* without the test of previous == 0: a plausible bug of line 12
PctChangeNoZeroTest(current, previous) ==
    IF IsNone(current) \/ IsNone(previous) THEN None
    ELSE Some(Frac((Val(current) - Val(previous)) * 100, Abs(Val(previous))))

\* None when either value is None or previous = 0, else (current - previous) / |previous| * 100
_pct_change(current, previous) ==
    IF IsNone(current) \/ IsNone(previous) THEN None
    ELSE IF Val(previous) = 0 THEN None
    ELSE Some(Frac((Val(current) - Val(previous)) * 100, Abs(Val(previous))))

_evaluate_revenue(f) ==
    LET yoy == _pct_change(f.revenue, f.prev_revenue)
        sig == IF ~IsNone(yoy) /\ FGe(Val(yoy), 10) THEN <<GREEN, "strong growth above 10% threshold">>
               ELSE IF ~IsNone(yoy) /\ FGt(Val(yoy), 0) THEN <<YELLOW, "positive but below the 10-15% ideal">>
               ELSE IF ~IsNone(yoy) THEN <<RED, "flat or declining revenue is a red flag">>
               ELSE <<YELLOW, "Insufficient data to calculate YoY revenue change">>
    IN  NapkinMetric("Revenue", f.revenue, f.prev_revenue, yoy, sig[1], sig[2], "currency")

_evaluate_pat(f) ==
    LET yoy == _pct_change(f.pat, f.prev_pat)
        sig == IF ~IsNone(f.pat) /\ Val(f.pat) < 0 THEN <<RED, "company is not profitable">>
               ELSE IF ~IsNone(yoy) /\ FGt(Val(yoy), 0) THEN <<GREEN, "profitability is improving">>
               ELSE IF ~IsNone(yoy) /\ FGt(Val(yoy), -10) THEN <<YELLOW, "relatively flat">>
               ELSE IF ~IsNone(yoy) THEN <<RED, "consistent profit decline is a warning">>
               ELSE <<YELLOW, "Insufficient data to calculate PAT trend">>
    IN  NapkinMetric("Profit After Tax", f.pat, f.prev_pat, yoy, sig[1], sig[2], "currency")

_evaluate_eps(f) ==
    LET yoy == _pct_change(f.eps, f.prev_eps)
        sig == IF ~IsNone(f.eps) /\ Val(f.eps) < 0 THEN <<RED, "company is losing money per share">>
               ELSE IF ~IsNone(yoy) /\ FGt(Val(yoy), 0) THEN <<GREEN, "earnings per share growing">>
               ELSE IF ~IsNone(yoy) /\ FGt(Val(yoy), -5) THEN <<YELLOW, "EPS roughly flat">>
               ELSE IF ~IsNone(yoy) THEN <<RED, "declining earnings is a red flag">>
               ELSE <<YELLOW, "Insufficient data to evaluate EPS trend">>
    IN  NapkinMetric("Earnings Per Share (EPS)", f.eps, f.prev_eps, yoy, sig[1], sig[2], "number")

_evaluate_dps(f) ==
    IF IsNone(f.dps) \/ (~IsNone(f.dps) /\ Val(f.dps) = 0)
    THEN LET sig == IF ~IsNone(f.prev_dps) /\ Val(f.prev_dps) > 0
                    THEN <<RED, "Dividend was cut or skipped">>
                    ELSE <<YELLOW, "No dividend paid">>
         IN  NapkinMetric("Dividend Per Share (DPS)", f.dps, f.prev_dps, None, sig[1], sig[2], "number")
    ELSE LET yoy == _pct_change(f.dps, f.prev_dps)
             sig == IF ~IsNone(yoy) /\ FGt(Val(yoy), 0) THEN <<GREEN, "dividend is growing">>
                    ELSE IF ~IsNone(yoy) /\ FGe(Val(yoy), -5) THEN <<GREEN, "consistent dividend">>
                    ELSE IF ~IsNone(yoy) THEN <<RED, "dividend cut is a warning sign">>
                    ELSE <<GREEN, "Paying dividend">>
         IN  NapkinMetric("Dividend Per Share (DPS)", f.dps, f.prev_dps, yoy, sig[1], sig[2], "number")

_evaluate_payout_ratio(f) ==
    IF IsNone(f.eps) \/ (~IsNone(f.eps) /\ Val(f.eps) <= 0) \/ IsNone(f.dps)
    THEN NapkinMetric("Payout Ratio", None, None, None, YELLOW,
                      "Cannot calculate", "percent")
    ELSE LET ratio == Frac(Val(f.dps) * 100, Val(f.eps))
             sig == IF FGe(ratio, 30) /\ FLe(ratio, 70) THEN <<GREEN, "healthy 30-70% range">>
                    ELSE IF FLt(ratio, 30) THEN <<YELLOW, "low">>
                    ELSE IF FLe(ratio, 100) THEN <<YELLOW, "high">>
                    ELSE <<RED, "exceeds 100%">>
         IN  NapkinMetric("Payout Ratio", Some(ratio), None, None, sig[1], sig[2], "percent")

_evaluate_debt_to_equity(f) ==
    IF IsNone(f.total_debt) \/ IsNone(f.shareholder_equity)
       \/ (~IsNone(f.shareholder_equity) /\ Val(f.shareholder_equity) = 0)
    THEN NapkinMetric("Debt-to-Equity", None, None, None, YELLOW,
                      "Insufficient data to calculate D/E ratio", "ratio")
    ELSE LET ratio == Frac(Val(f.total_debt), Val(f.shareholder_equity))
             sig == IF Val(f.shareholder_equity) < 0 THEN <<RED, "Negative equity">>
                    ELSE IF FLt(ratio, 1) THEN <<GREEN, "conservative">>
                    ELSE IF FLeTenths(ratio, 15) THEN <<GREEN, "within the healthy range">>
                    ELSE IF FLe(ratio, 2) THEN <<YELLOW, "moderate">>
                    ELSE <<RED, "exceeds 2.0x">>
         IN  NapkinMetric("Debt-to-Equity", Some(ratio), None, None, sig[1], sig[2], "ratio")

_evaluate_roe(f) ==
    IF IsNone(f.pat) \/ IsNone(f.shareholder_equity)
       \/ (~IsNone(f.shareholder_equity) /\ Val(f.shareholder_equity) <= 0)
    THEN NapkinMetric("Return on Equity (ROE)", None, None, None, YELLOW,
                      "Cannot calculate ROE", "percent")
    ELSE LET roe == Frac(Val(f.pat) * 100, Val(f.shareholder_equity))
             sig == IF FGe(roe, 15) THEN <<GREEN, "above the 15% threshold">>
                    ELSE IF FGe(roe, 8) THEN <<YELLOW, "moderate">>
                    ELSE IF FGe(roe, 0) THEN <<RED, "below 8%">>
                    ELSE <<RED, "Negative ROE">>
         IN  NapkinMetric("Return on Equity (ROE)", Some(roe), None, None, sig[1], sig[2], "percent")

_evaluate_operating_cashflow(f) ==
    LET yoy == _pct_change(f.operating_cash_flow, f.prev_operating_cash_flow)
    IN  IF IsNone(f.operating_cash_flow)
        THEN NapkinMetric("Operating Cash Flow", None, None, None, YELLOW,
                          "No operating cash flow data available", "currency")
        ELSE LET sig == IF Val(f.operating_cash_flow) < 0 THEN <<RED, "business is burning cash">>
                        ELSE IF ~IsNone(yoy) /\ FGt(Val(yoy), 0) THEN <<GREEN, "positive and growing">>
                        ELSE IF ~IsNone(yoy) /\ FGt(Val(yoy), -10) THEN <<YELLOW, "declining slightly">>
                        ELSE IF ~IsNone(yoy) THEN <<YELLOW, "shrinking">>
                        ELSE <<GREEN, "Positive operating cash flow">>
             IN  NapkinMetric("Operating Cash Flow", f.operating_cash_flow,
                              f.prev_operating_cash_flow, yoy, sig[1], sig[2], "currency")

\* sum(1 for m in metrics if m.signal == s)
CountSignal(metrics, s) == Cardinality({i \in DOMAIN metrics : metrics[i].signal = s})

\* the red rule firing from three red flags on: a plausible bug of line 320
DecideRedThree(green_count, red_count) ==
    IF red_count >= 3 THEN <<SELL, "red flags">>
    ELSE IF green_count >= 6 /\ red_count = 0 THEN <<BUY, "solid">>
    ELSE IF green_count >= 4 /\ red_count <= 1 THEN <<BUY, "generally positive">>
    ELSE IF red_count = 1 THEN <<HOLD, "mixed">>
    ELSE <<HOLD, "insufficient">>

\* lines 320-334: the first matching branch of the if/elif chain
Decide(green_count, red_count) ==
    IF red_count >= 2 THEN <<SELL, "red flags">>
    ELSE IF green_count >= 6 /\ red_count = 0 THEN <<BUY, "solid">>
    ELSE IF green_count >= 4 /\ red_count <= 1 THEN <<BUY, "generally positive">>
    ELSE IF red_count = 1 THEN <<HOLD, "mixed">>
    ELSE <<HOLD, "insufficient">>

\* ROE evaluated before Debt-to-Equity: a plausible bug of lines 304-313
MetricsSwapped(f) ==
    << _evaluate_revenue(f), _evaluate_pat(f), _evaluate_eps(f), _evaluate_dps(f),
       _evaluate_payout_ratio(f), _evaluate_roe(f), _evaluate_debt_to_equity(f),
       _evaluate_operating_cashflow(f) >>

Metrics(f) ==
    << _evaluate_revenue(f), _evaluate_pat(f), _evaluate_eps(f), _evaluate_dps(f),
       _evaluate_payout_ratio(f), _evaluate_debt_to_equity(f), _evaluate_roe(f),
       _evaluate_operating_cashflow(f) >>

\* the fractions a metric holds: its yoy_change, and its current_value when
\* that is a computed ratio
Fractions(m) ==
    (IF IsNone(m.yoy_change) THEN {} ELSE {Val(m.yoy_change)})
        \cup (IF m.format_type \in {"percent", "ratio"} /\ ~IsNone(m.current_value)
              THEN {Val(m.current_value)} ELSE {})

\* an evaluator divided by zero
Raises(metrics) == \E i \in DOMAIN metrics : \E fr \in Fractions(metrics[i]) : fr.d = 0

ZeroDivisionError == [exception |-> "ZeroDivisionError"]

IsException(r) == "exception" \in DOMAIN r

analyze_stock(f) ==
    LET metrics == Metrics(f)
        green_count == CountSignal(metrics, GREEN)
        yellow_count == CountSignal(metrics, YELLOW)
        red_count == CountSignal(metrics, RED)
        d == Decide(green_count, red_count)
    IN  [ticker |-> f.ticker, company_name |-> f.company_name,
         current_year |-> f.current_year, previous_year |-> f.previous_year,
         metrics |-> metrics, recommendation |-> d[1],
         green_count |-> green_count, yellow_count |-> yellow_count,
         red_count |-> red_count, summary |-> d[2]]

---------------------------------------------------------------------------
(* src/scraper.py: extraction.                                              *)
(*                                                                          *)
(* A dataset (Python dict) is a function from field names to arrays; the    *)
(* empty dict is the function with the empty domain.  An array entry is a   *)
(* tagged value: JSON null, a number, or a string.  A page is described by  *)
(* what the extractor's three searches find in it:                          *)
(*   fd      what the primary pattern financialData:{...} matches: None     *)
(*           (no match), or Some of the outcome of json.loads on the        *)
(*           repaired block, [ok, obj] (ok = FALSE: JSONDecodeError);       *)
(*   qfd     the same for the looser pattern "financialData": {...};        *)
(*   arrays  for each known field whose bracketed array the per-field       *)
(*           pattern finds, the array's comma-separated items.              *)

Null == [k |-> "null", n |-> 0, s |-> ""]
Num(n) == [k |-> "num", n |-> n, s |-> ""]
Str(s) == [k |-> "str", n |-> 0, s |-> s]

EmptyDict == <<>>

Has(d, key) == key \in DOMAIN d

\* dict.get(key, []) of an array-valued dict
Get(d, key) == IF Has(d, key) THEN d[key] ELSE <<>>

JsonError == [ok |-> FALSE, obj |-> EmptyDict]
JsonObject(d) == [ok |-> TRUE, obj |-> d]

\* a page whose financialData block parses to d, and nothing else
PageOf(d) == [fd |-> Some(JsonObject(d)), qfd |-> None, arrays |-> <<>>]

\* a page without any embedded data
NoDataPage == [fd |-> None, qfd |-> None, arrays |-> <<>>]

\* an item of a bracketed array as the fallback reads it, after strip()
ItemNull == [t |-> "null", n |-> 0, s |-> ""]
ItemEmpty == [t |-> "empty", n |-> 0, s |-> ""]
ItemInt(n) == [t |-> "int", n |-> n, s |-> ""]
ItemText(s) == [t |-> "text", n |-> 0, s |-> s]
\* an item with a leading dot that float("0" + item) rejects, such as ".x"
ItemBadDot == [t |-> "baddot", n |-> 0, s |-> ".x"]

\* lines 86-94: one item of an array; ok = FALSE when float() raises
\* outside the inner try (the field is then skipped by `except Exception`)
ParseItem(item) ==
    IF item.t = "null" \/ item.t = "empty" THEN [ok |-> TRUE, v |-> Null]
    ELSE IF item.t = "baddot" THEN [ok |-> FALSE, v |-> Null]
    ELSE IF item.t = "int" THEN [ok |-> TRUE, v |-> Num(item.n)]
    ELSE [ok |-> TRUE, v |-> Str(item.s)]

fields == <<"datekey", "fiscalYear", "revenue", "netinc", "epsBasic", "dps",
            "payoutratio", "debt", "equity", "ncfo">>

FieldNames == {fields[i] : i \in DOMAIN fields}

\* lines 70-99: the per-field array scan
ArrayScan(html) ==
    LET found == {f \in FieldNames :
                     /\ f \in DOMAIN html.arrays
                     /\ \A i \in DOMAIN html.arrays[f] : ParseItem(html.arrays[f][i]).ok}
        res == [f \in found |-> [i \in DOMAIN html.arrays[f] |-> ParseItem(html.arrays[f][i]).v]]
    IN  IF found = {} THEN None ELSE Some(res)

_extract_financial_data_fallback(html) ==
    IF ~IsNone(html.qfd) /\ Val(html.qfd).ok
    THEN Some(Val(html.qfd).obj)
    ELSE ArrayScan(html)

_extract_financial_data(html) ==
    IF IsNone(html.fd) THEN None
    ELSE IF Val(html.fd).ok THEN Some(Val(html.fd).obj)
    ELSE _extract_financial_data_fallback(html)

---------------------------------------------------------------------------
(* src/scraper.py: reading the arrays, fiscal-year alignment, the record    *)

\* float(text) for the strings of the model: "7" reads as a number, any
\* other string raises ValueError
FloatOfText(s) == IF s = "7" THEN Some(7) ELSE None

\* Python indices are 0-based; index -1 (never passed by the caller, which
\* guards prev_idx >= 0) would read the last entry
_safe_get(data, key, index) ==
    LET arr == Get(data, key)
    IN  IF Len(arr) = 0 \/ index >= Len(arr) THEN None
        ELSE LET val == arr[IF index < 0 THEN Len(arr) + 1 + index ELSE index + 1]
             IN  IF val.k = "null" THEN None
                 ELSE IF val.k = "num" THEN Some(val.n)
                 ELSE FloatOfText(val.s)

\* str(value), cut to its first four characters when it looks like an ISO
\* date ("-" in it and longer than 4)
YearText(val) ==
    IF val.k = "null" THEN "None"
    ELSE IF val.k = "num" THEN ToString(val.n)
    ELSE IF val.s = "2024-12-31" THEN "2024"
    ELSE IF val.s = "2023-12-31" THEN "2023"
    ELSE val.s

_get_year_label(data, index) ==
    LET fy == Get(data, "fiscalYear")
        arr == IF Len(fy) > 0 THEN fy ELSE Get(data, "datekey")
    IN  IF Len(arr) > 0 /\ index < Len(arr) THEN YearText(arr[index + 1]) ELSE ""

\* lines 191-201 (income) and 234-243 (cash flow): <<current, previous>>,
\* previous = -1 for none
AlignSkipTTM(years) ==
    IF Len(years) >= 3 THEN <<1, 2>>
    ELSE IF Len(years) >= 2 THEN <<0, 1>>
    ELSE <<0, -1>>

\* lines 222-224 (balance sheet, "no TTM")
AlignNoTTM(years) == <<0, IF Len(years) >= 2 THEN 1 ELSE -1>>

AlignIncome(income) == AlignSkipTTM(Get(income, "fiscalYear"))

AlignBalance(balance) == AlignNoTTM(Get(balance, "fiscalYear"))

AlignCashflowBad(cashflow) == AlignNoTTM(Get(cashflow, "fiscalYear"))

AlignCashflow(cashflow) == AlignSkipTTM(Get(cashflow, "fiscalYear"))

\* `not data`: None or the empty dict
Falsy(data) == IsNone(data) \/ DOMAIN Val(data) = {}

ALL_TICKERS == [t \in {"DANGCEM"} |-> "Dangote Cement"]

CompanyName(ticker) == IF ticker \in DOMAIN ALL_TICKERS THEN ALL_TICKERS[ticker] ELSE ticker

PrevGet(data, key, prev) == IF prev >= 0 THEN _safe_get(data, key, prev) ELSE None

\* lines 203-217
IncomePart(ticker, income) ==
    LET idx == AlignIncome(income)
    IN  [StockFinancials(ticker, CompanyName(ticker)) EXCEPT
            !.current_year = _get_year_label(income, idx[1]),
            !.previous_year = IF idx[2] >= 0 THEN _get_year_label(income, idx[2]) ELSE "",
            !.revenue = _safe_get(income, "revenue", idx[1]),
            !.pat = _safe_get(income, "netinc", idx[1]),
            !.eps = _safe_get(income, "epsBasic", idx[1]),
            !.dps = _safe_get(income, "dps", idx[1]),
            !.prev_revenue = PrevGet(income, "revenue", idx[2]),
            !.prev_pat = PrevGet(income, "netinc", idx[2]),
            !.prev_eps = PrevGet(income, "epsBasic", idx[2]),
            !.prev_dps = PrevGet(income, "dps", idx[2])]

\* lines 220-230
BalancePart(f, balance_data) ==
    IF Falsy(balance_data) THEN f
    ELSE LET balance == Val(balance_data)
             idx == AlignBalance(balance)
         IN  [f EXCEPT
                !.total_debt = _safe_get(balance, "debt", idx[1]),
                !.shareholder_equity = _safe_get(balance, "equity", idx[1]),
                !.prev_total_debt = PrevGet(balance, "debt", idx[2]),
                !.prev_shareholder_equity = PrevGet(balance, "equity", idx[2])]

\* lines 233-247
CashflowPart(f, cashflow_data) ==
    IF Falsy(cashflow_data) THEN f
    ELSE LET cashflow == Val(cashflow_data)
             idx == AlignCashflow(cashflow)
         IN  [f EXCEPT
                !.operating_cash_flow = _safe_get(cashflow, "ncfo", idx[1]),
                !.prev_operating_cash_flow = PrevGet(cashflow, "ncfo", idx[2])]

\* a plausible bug: the record needs all three datasets
FinancialsNeedAll(ticker, income_data, balance_data, cashflow_data) ==
    IF Falsy(income_data) \/ Falsy(balance_data) \/ Falsy(cashflow_data) THEN None
    ELSE Some(CashflowPart(BalancePart(IncomePart(ticker, Val(income_data)), balance_data),
                           cashflow_data))

\* lines 185-247: None when `not income_data`, else the record
Financials(ticker, income_data, balance_data, cashflow_data) ==
    IF Falsy(income_data) THEN None
    ELSE Some(CashflowPart(BalancePart(IncomePart(ticker, Val(income_data)), balance_data),
                           cashflow_data))

---------------------------------------------------------------------------
(* src/scraper.py: _fetch_page and fetch_stock_financials as coroutines.    *)
(*                                                                          *)
(* A call is suspended only at an await: the GET of line 132, the backoff   *)
(* sleeps of lines 136 and 140, the pacing sleeps of lines 171 and 178.     *)
(* Everything between two awaits runs as one step (asyncio runs a coroutine *)
(* until it suspends).  Sleep durations are in milliseconds, the clock of   *)
(* the cache in seconds.                                                    *)

CACHE_TTL == 3600

\* range(3) of _fetch_page
MaxAttempts == 3

\* asyncio.sleep(1.5)
PACING_MS == 1500

\* asyncio.sleep(5 * (attempt + 1))
BackoffMs(attempt) == 5000 * (attempt + 1)

\* asyncio.sleep(2)
ERROR_SLEEP_MS == 2000

\* the calls of fetch_stock_financials of a behaviour: two, which may overlap
Procs == {1, 2}

\* the clock advances in steps of about one CACHE_TTL, at most MaxAdvances times
MaxAdvances == 1

ClockSteps == {CACHE_TTL - 1, CACHE_TTL}

\* ticker.upper().strip()
UpperStrip(raw) ==
    IF raw \in {"dangcem", " DANGCEM ", "DANGCEM"} THEN "DANGCEM"
    ELSE IF raw \in {"zenithbank", "ZENITHBANK"} THEN "ZENITHBANK"
    ELSE raw

RawTickers == {"dangcem", "DANGCEM", "zenithbank"}

Tickers == {UpperStrip(raw) : raw \in RawTickers}

\* the three pages of a ticker, in the order of lines 167, 174, 181
Urls == <<"financials/", "financials/balance-sheet/", "financials/cash-flow-statement/">>

\* survived is history, not program state: clear_cache has run since the
\* call started and before it ended
IdleCall ==
    [pc |-> "idle", ticker |-> "", page |-> 0, attempt |-> 0, gets |-> 0, sleep |-> 0,
     income_data |-> None, balance_data |-> None, cashflow_data |-> None,
     ret |-> None, survived |-> FALSE]

\* `time.time() - ts < CACHE_TTL` of line 156, off by one
FreshBad(entry, clock) == clock - entry[2] <= CACHE_TTL

\* lines 154-156: the entry is there and younger than CACHE_TTL
Fresh(entry, clock) == clock - entry[2] < CACHE_TTL

CacheHit(cache, ticker, clock) == ~IsNone(cache[ticker]) /\ Fresh(Val(cache[ticker]), clock)

\* line 132: the GET is sent and the call suspends until its outcome
IssueGet(c, attempt) ==
    [c EXCEPT !.pc = "L132", !.attempt = attempt, !.gets = c.gets + 1, !.sleep = 0]

\* the call of _fetch_page for the k-th page: the loop starts at attempt 0
EnterFetch(c, k) == IssueGet([c EXCEPT !.page = k, !.gets = 0], 0)

\* a first write wins: a plausible bug of line 250
CacheWriteOnce(cache, ticker, financials, clock) ==
    IF IsNone(cache[ticker]) THEN [cache EXCEPT ![ticker] = Some(<<financials, clock>>)]
    ELSE cache

\* line 250: _cache[ticker] = (financials, time.time())
CacheWrite(cache, ticker, financials, clock) ==
    [cache EXCEPT ![ticker] = Some(<<financials, clock>>)]

\* lines 185-251, run when the third _fetch_page has returned
Finish(c, cache, clock) ==
    LET financials == Financials(c.ticker, c.income_data, c.balance_data, c.cashflow_data)
        d == [c EXCEPT !.pc = "done", !.sleep = 0, !.attempt = 0, !.gets = 0]
    IN  IF IsNone(financials)
        THEN [call |-> [d EXCEPT !.ret = None], cache |-> cache]
        ELSE [call |-> [d EXCEPT !.ret = financials],
              cache |-> CacheWrite(cache, c.ticker, Val(financials), clock)]

\* no pacing before the cash-flow page: a plausible bug of line 178
FetchReturnedNoPacing(c, html, cache, clock) ==
    LET data == IF IsNone(html) THEN None ELSE _extract_financial_data(Val(html))
    IN  IF c.page = 1
        THEN [call |-> [c EXCEPT !.income_data = data, !.pc = "L171", !.sleep = PACING_MS],
              cache |-> cache]
        ELSE IF c.page = 2
        THEN [call |-> EnterFetch([c EXCEPT !.balance_data = data], 3), cache |-> cache]
        ELSE Finish([c EXCEPT !.cashflow_data = data], cache, clock)

\* _fetch_page has returned html (None: absent) to lines 168, 175 or 182
FetchReturned(c, html, cache, clock) ==
    LET data == IF IsNone(html) THEN None ELSE _extract_financial_data(Val(html))
    IN  IF c.page = 1
        THEN [call |-> [c EXCEPT !.income_data = data, !.pc = "L171", !.sleep = PACING_MS],
              cache |-> cache]
        ELSE IF c.page = 2
        THEN [call |-> [c EXCEPT !.balance_data = data, !.pc = "L178", !.sleep = PACING_MS],
              cache |-> cache]
        ELSE Finish([c EXCEPT !.cashflow_data = data], cache, clock)

\* a loop of four attempts: a plausible bug of line 130
NextAttemptFour(c, cache, clock) ==
    IF c.attempt + 1 < MaxAttempts + 1
    THEN [call |-> IssueGet(c, c.attempt + 1), cache |-> cache]
    ELSE FetchReturned(c, None, cache, clock)

\* the end of one iteration of `for attempt in range(3)`, reached by
\* `continue` and by falling out of the try statement alike: the next
\* attempt, or line 142 (return None) after the last
NextAttempt(c, cache, clock) ==
    IF c.attempt + 1 < MaxAttempts
    THEN [call |-> IssueGet(c, c.attempt + 1), cache |-> cache]
    ELSE FetchReturned(c, None, cache, clock)

\* lines 133-137 for a status that is neither 200 nor 429: no branch is
\* taken, the try statement ends and the loop goes on
OtherStatus(c, cache, clock) == NextAttempt(c, cache, clock)

\* lines 133-141: the outcome of the GET of line 132
AfterGet(c, outcome, html, cache, clock) ==
    IF outcome = "200" THEN FetchReturned(c, Some(html), cache, clock)
    ELSE IF outcome = "429"
    THEN [call |-> [c EXCEPT !.pc = "L136", !.sleep = BackoffMs(c.attempt)], cache |-> cache]
    ELSE IF outcome = "other" THEN OtherStatus(c, cache, clock)
    ELSE IF c.attempt < 2
    THEN [call |-> [c EXCEPT !.pc = "L140", !.sleep = ERROR_SLEEP_MS], cache |-> cache]
    ELSE NextAttempt(c, cache, clock)

\* the outcomes of a GET other than a 200 response: a 429 response, a
\* response of any other status, an httpx.HTTPError
Failures == {"429", "other", "HTTPError"}

\* lines 151-167: the cache check, then the first GET
StartCall(cs, p, raw, cache, clock) ==
    LET ticker == UpperStrip(raw)
        c == [cs[p] EXCEPT !.ticker = ticker]
    IN  IF CacheHit(cache, ticker, clock)
        THEN [cs EXCEPT ![p] = [c EXCEPT !.pc = "done", !.ret = Some(Val(cache[ticker])[1])]]
        ELSE [cs EXCEPT ![p] = EnterFetch(c, 1)]

\* main.py, analyze: financials = await fetch_stock_financials(ticker)
analyze(p, raw) ==
    /\ calls[p].pc = "idle"
    /\ calls' = StartCall(calls, p, raw, _cache, now)
    /\ UNCHANGED <<_cache, now, analyzerVars, extractorVars>>

\* main.py line 79: ticker_list[:3]
MaxCompare == 3

Min(a, b) == IF a < b THEN a ELSE b

IdleProcs(cs) == {p \in DOMAIN cs : cs[p].pc = "idle"}

LeastOf(S) == CHOOSE x \in S : \A y \in S : x <= y

RECURSIVE GatherStart(_, _, _, _)
\* asyncio.gather starts the coroutines in list order; each runs to its first
\* suspension (or to its return, on a cache hit) before the next starts
GatherStart(cs, ticker_list, cache, clock) ==
    IF ticker_list = <<>> THEN cs
    ELSE GatherStart(StartCall(cs, LeastOf(IdleProcs(cs)), Head(ticker_list), cache, clock),
                     Tail(ticker_list), cache, clock)

\* main.py lines 78-87: the first three non-blank tickers, fetched concurrently
compare(tickers) ==
    LET ticker_list == SubSeq(tickers, 1, Min(MaxCompare, Len(tickers)))
    IN  /\ Len(ticker_list) <= Cardinality(IdleProcs(calls))
        /\ calls' = GatherStart(calls, ticker_list, _cache, now)
        /\ UNCHANGED <<_cache, now, analyzerVars, extractorVars>>

\* the GET of line 132 completes: a response, or an httpx.HTTPError
Respond(p, outcome, html) ==
    /\ calls[p].pc = "L132"
    /\ LET r == AfterGet(calls[p], outcome, html, _cache, now)
       IN  /\ calls' = [calls EXCEPT ![p] = r.call]
           /\ _cache' = r.cache
    /\ UNCHANGED <<now, analyzerVars, extractorVars>>

\* an asyncio.sleep completes
Wake(p) ==
    /\ calls[p].pc \in {"L136", "L140", "L171", "L178"}
    /\ LET c == calls[p]
           r == IF c.pc = "L171" THEN [call |-> EnterFetch(c, 2), cache |-> _cache]
                ELSE IF c.pc = "L178" THEN [call |-> EnterFetch(c, 3), cache |-> _cache]
                ELSE NextAttempt(c, _cache, now)
       IN  /\ calls' = [calls EXCEPT ![p] = r.call]
           /\ _cache' = r.cache
    /\ UNCHANGED <<now, analyzerVars, extractorVars>>

\* lines 254-256
InFlight(c) == c.pc \notin {"idle", "done"}

\* a clear that also ends the running calls: a plausible bug of line 256
ClearAndCancel ==
    /\ _cache' = [t \in DOMAIN _cache |-> None]
    /\ calls' = [p \in DOMAIN calls |->
                    IF InFlight(calls[p])
                    THEN [calls[p] EXCEPT !.pc = "done", !.page = 3, !.ret = None,
                                          !.sleep = 0, !.attempt = 0, !.gets = 0]
                    ELSE calls[p]]
    /\ UNCHANGED <<now, analyzerVars, extractorVars>>

\* lines 254-256: the store is emptied; the running calls go on (each notes
\* that it has seen a clear)
clear_cache ==
    /\ _cache' = [t \in DOMAIN _cache |-> None]
    /\ calls' = [p \in DOMAIN calls |->
                    IF InFlight(calls[p]) THEN [calls[p] EXCEPT !.survived = TRUE]
                    ELSE calls[p]]
    /\ UNCHANGED <<now, analyzerVars, extractorVars>>

\* time passes
Advance(d) ==
    /\ now \div (CACHE_TTL - 1) < MaxAdvances
    /\ now' = now + d
    /\ UNCHANGED <<_cache, calls, analyzerVars, extractorVars>>

---------------------------------------------------------------------------
(* The site served to the concurrent calls, and the specification of the    *)
(* cache and the calls.                                                     *)

IncomeData ==
    [x \in {"fiscalYear", "revenue"} |->
        CASE x = "fiscalYear" -> <<Str("TTM"), Num(2024), Num(2023)>>
          [] x = "revenue" -> <<Num(120), Num(110), Num(100)>>]

BalanceData ==
    [x \in {"fiscalYear", "debt"} |->
        CASE x = "fiscalYear" -> <<Num(2024), Num(2023)>>
          [] x = "debt" -> <<Num(100), Num(90)>>]

CashflowData ==
    [x \in {"fiscalYear", "ncfo"} |->
        CASE x = "fiscalYear" -> <<Str("TTM"), Num(2024), Num(2023)>>
          [] x = "ncfo" -> <<Num(12), Num(10), Num(5)>>]

\* what a 200 response to the k-th page of a ticker may hold
Site(k) ==
    IF k = 1 THEN {PageOf(IncomeData), PageOf(EmptyDict)}
    ELSE IF k = 2 THEN {PageOf(BalanceData)}
    ELSE {PageOf(CashflowData)}

AnalyzerIdle ==
    /\ fin = StockFinancials("", "")
    /\ result = None

ExtractorIdle ==
    /\ page = NoDataPage
    /\ extracted = None

CallsIdle ==
    /\ _cache = [t \in Tickers |-> None]
    /\ now = 0
    /\ calls = [p \in Procs |-> IdleCall]

Init ==
    /\ CallsIdle
    /\ AnalyzerIdle
    /\ ExtractorIdle

Next ==
    \/ \E p \in Procs, raw \in RawTickers : analyze(p, raw)
    \/ \E n \in 2..Min(MaxCompare + 1, Cardinality(IdleProcs(calls)) + 1) :
          \E tickers \in [1..n -> RawTickers] : compare(tickers)
    \/ \E p \in Procs : \E html \in Site(calls[p].page) : Respond(p, "200", html)
    \/ \E p \in Procs, outcome \in Failures : Respond(p, outcome, NoDataPage)
    \/ \E p \in Procs : Wake(p)
    \/ clear_cache
    \/ \E d \in ClockSteps : Advance(d)

Spec == Init /\ [][Next]_vars

---------------------------------------------------------------------------
(* One call served by a site whose datasets have fiscal-year arrays and     *)
(* value arrays of every length up to MaxYears: the alignment of lines      *)
(* 191-247.                                                                 *)

MaxYears == 4

\* the fiscal years, newest first
Years(len) == [i \in 1..len |-> Num(2026 - i)]

\* an array whose entry at (0-based) index j is base + j
Series(base, len) == [i \in 1..len |-> Num(base + i - 1)]

\* a dataset of the given fields; no fiscalYear key when years = 0
DatasetOf(keys, years, len) ==
    [x \in keys \cup (IF years > 0 THEN {"fiscalYear"} ELSE {}) |->
        CASE x = "fiscalYear" -> Years(years)
          [] x = "revenue" -> Series(100, len)
          [] x = "netinc" -> Series(200, len)
          [] x = "epsBasic" -> Series(300, len)
          [] x = "dps" -> Series(400, len)
          [] x = "debt" -> Series(500, len)
          [] x = "equity" -> Series(600, len)
          [] x = "ncfo" -> Series(700, len)]

StatementKeys(k) ==
    IF k = 1 THEN {"revenue", "netinc", "epsBasic", "dps"}
    ELSE IF k = 2 THEN {"debt", "equity"}
    ELSE {"ncfo"}

AlignSite(k) ==
    {PageOf(DatasetOf(StatementKeys(k), years, len)) : years \in 0..MaxYears, len \in 0..MaxYears}
        \cup {NoDataPage}

NextAlign ==
    \/ \E raw \in RawTickers : analyze(1, raw)
    \/ \E html \in AlignSite(calls[1].page) : Respond(1, "200", html)
    \/ \E outcome \in Failures : Respond(1, outcome, NoDataPage)
    \/ Wake(1)

SpecAlign == Init /\ [][NextAlign]_vars

---------------------------------------------------------------------------
(* The extractor on its own: a page is handed in, _extract_financial_data   *)
(* returns a dataset or None.                                               *)

ItemLists == {<<ItemInt(1), ItemNull, ItemInt(3)>>, <<ItemText("2024-12-31"), ItemEmpty>>,
              <<ItemBadDot, ItemInt(1)>>}

ScannedFields == {"fiscalYear", "revenue", "ncfo"}

JsonOutcomes == {None, Some(JsonError), Some(JsonObject(EmptyDict)), Some(JsonObject(IncomeData))}

ArraysFound == UNION {[S -> ItemLists] : S \in SUBSET ScannedFields}

InitExtract ==
    /\ \E fd \in JsonOutcomes, qfd \in JsonOutcomes, arrays \in ArraysFound :
          page = [fd |-> fd, qfd |-> qfd, arrays |-> arrays]
    /\ extracted = None
    /\ AnalyzerIdle
    /\ CallsIdle

\* lines 168-169: income_data = _extract_financial_data(html)
Extract ==
    /\ extracted = None
    /\ extracted' = Some(_extract_financial_data(page))
    /\ UNCHANGED <<page, analyzerVars, callVars>>

NextExtract == Extract

SpecExtract == InitExtract /\ [][NextExtract]_vars

---------------------------------------------------------------------------
(* The analyzer as a state machine: a record is handed in, analyze_stock    *)
(* returns its result.                                                      *)

Opt(S) == {None} \cup {Some(x) : x \in S}

\* the amounts the analyzed records draw their fields from: each set crosses
\* the thresholds of the rules that read the field
RevenueAmounts == {100, 105, 110}
PrevRevenueAmounts == {100}
PatAmounts == {-5, 7, 15}
PrevPatAmounts == {10}
EpsAmounts == {-2, 10}
PrevEpsAmounts == {8}
DpsAmounts == {0, 5, 12}
PrevDpsAmounts == {5}
DebtAmounts == {100, 201}
EquityAmounts == {-50, 100}
OcfAmounts == {-1, 10}
PrevOcfAmounts == {5}

AnalyzedRecord(r, p, e, d, b, o) ==
    [StockFinancials("DANGCEM", "Dangote Cement") EXCEPT
        !.revenue = r[1], !.prev_revenue = r[2], !.pat = p[1], !.prev_pat = p[2],
        !.eps = e[1], !.prev_eps = e[2], !.dps = d[1], !.prev_dps = d[2],
        !.total_debt = b[1], !.shareholder_equity = b[2],
        !.operating_cash_flow = o[1], !.prev_operating_cash_flow = o[2]]

InitAnalyze ==
    /\ \E r \in Opt(RevenueAmounts) \X Opt(PrevRevenueAmounts),
          p \in Opt(PatAmounts) \X Opt(PrevPatAmounts),
          e \in Opt(EpsAmounts) \X Opt(PrevEpsAmounts),
          d \in Opt(DpsAmounts) \X Opt(PrevDpsAmounts),
          b \in Opt(DebtAmounts) \X Opt(EquityAmounts),
          o \in Opt(OcfAmounts) \X Opt(PrevOcfAmounts) :
          fin = AnalyzedRecord(r, p, e, d, b, o)
    /\ result = None
    /\ ExtractorIdle
    /\ CallsIdle

\* main.py: result = analyze_stock(financials)
Analyze ==
    /\ result = None
    /\ result' = Some(IF Raises(Metrics(fin)) THEN ZeroDivisionError ELSE analyze_stock(fin))
    /\ UNCHANGED <<fin, extractorVars, callVars>>

NextAnalyze == Analyze

SpecAnalyze == InitAnalyze /\ [][NextAnalyze]_vars

---------------------------------------------------------------------------
(* The analyzer's properties, under SpecAnalyze.                            *)

\* the number of metrics of signal s, recounted from the returned metrics
Signals(metrics, s) == Cardinality({i \in DOMAIN metrics : metrics[i].signal = s})

\* the decision order as the specification words it
FirstMatch(green, red) ==
    IF red >= 2 THEN SELL
    ELSE IF green >= 6 /\ red = 0 THEN BUY
    ELSE IF green >= 4 /\ red <= 1 THEN BUY
    ELSE IF red = 1 THEN HOLD
    ELSE HOLD

\* analyze_stock has returned a result
Analysed == ~IsNone(result) /\ ~IsException(Val(result))

\* C1: the recommendation of every result is the one of the first matching
\* rule (red >= 2 SELL; green >= 6 and no red BUY; green >= 4 and red <= 1
\* BUY; red = 1 HOLD; otherwise HOLD) over the signals of its eight metrics;
\* 6 green / 2 red is SELL, 7 green / 1 red is BUY, 3 green / 4 yellow /
\* 1 red is HOLD, 8 yellow is HOLD.
C1_DecisionOrder ==
    Analysed =>
        LET a == Val(result)
            green == Signals(a.metrics, GREEN)
            yellow == Signals(a.metrics, YELLOW)
            red == Signals(a.metrics, RED)
        IN  /\ a.recommendation = FirstMatch(green, red)
            /\ (green = 6 /\ red = 2 => a.recommendation = SELL)
            /\ (green = 7 /\ red = 1 => a.recommendation = BUY)
            /\ (green = 3 /\ yellow = 4 /\ red = 1 => a.recommendation = HOLD)
            /\ (yellow = 8 => a.recommendation = HOLD)

\* six green metrics and two red ones: the red rule has fired before the
\* green one
C1_Witness ==
    /\ Analysed
    /\ Signals(Val(result).metrics, GREEN) = 6
    /\ Signals(Val(result).metrics, RED) = 2
    /\ Val(result).recommendation = SELL

MetricNames ==
    <<"Revenue", "Profit After Tax", "Earnings Per Share (EPS)", "Dividend Per Share (DPS)",
      "Payout Ratio", "Debt-to-Equity", "Return on Equity (ROE)", "Operating Cash Flow">>

NumericFields ==
    {"revenue", "pat", "eps", "dps", "total_debt", "shareholder_equity",
     "operating_cash_flow", "prev_revenue", "prev_pat", "prev_eps", "prev_dps",
     "prev_total_debt", "prev_shareholder_equity", "prev_operating_cash_flow"}

AllMissing(f) == \A x \in NumericFields : IsNone(f[x])

\* C2: analyze_stock returns for every record, never raising, exactly eight
\* metrics in the order Revenue, Profit After Tax, EPS, DPS, Payout Ratio,
\* Debt-to-Equity, ROE, Operating Cash Flow; its three counts sum to 8; for
\* the record whose fourteen numeric fields are all missing all eight are
\* yellow.
C2_EightMetrics ==
    ~IsNone(result) =>
        /\ ~IsException(Val(result))
        /\ LET a == Val(result)
           IN  /\ Len(a.metrics) = 8
               /\ [i \in 1..8 |-> a.metrics[i].name] = MetricNames
               /\ a.green_count + a.yellow_count + a.red_count = 8
               /\ a.green_count = Signals(a.metrics, GREEN)
               /\ a.red_count = Signals(a.metrics, RED)
               /\ (AllMissing(fin) => \A i \in 1..8 : a.metrics[i].signal = YELLOW)

\* the all-missing record has been analysed: eight yellow metrics
C2_Witness ==
    /\ Analysed
    /\ AllMissing(fin)
    /\ Val(result).yellow_count = 8
    /\ Len(Val(result).metrics) = 8

---------------------------------------------------------------------------
(* The properties of the cache and of the calls, under Spec.                *)

\* the dataset a call holds for its k-th page
DataOf(c, k) ==
    IF k = 1 THEN c.income_data ELSE IF k = 2 THEN c.balance_data ELSE c.cashflow_data

\* in this step the call's _fetch_page has ended: the call has moved from
\* the GET or a backoff sleep to what follows the fetch of its page
Returned(c, d) ==
    /\ c.pc \in {"L132", "L136", "L140"}
    /\ d.pc = (IF c.page = 1 THEN "L171" ELSE IF c.page = 2 THEN "L178" ELSE "done")
    /\ d.page = c.page

\* in this step the call has run lines 185-251 after its third fetch
Completes(c, d) == c.pc # "done" /\ d.pc = "done" /\ d.page = 3

\* C3: a call of fetch_stock_financials that finds an entry for its ticker
\* with now - stored_timestamp < 3600 returns the stored record and issues no
\* GET; with no entry, or one of age 3600 or more, it starts the pipeline
\* with the GET of the income page.
C3_CacheHitIffFresh ==
    [][\A p \in Procs :
        LET c == calls[p]
            d == calls'[p]
            entry == _cache[d.ticker]
        IN  (c.pc = "idle" /\ d.pc # "idle") =>
                IF ~IsNone(entry) /\ now - Val(entry)[2] < 3600
                THEN /\ d.pc = "done"
                     /\ d.ret = Some(Val(entry)[1])
                     /\ d.page = 0 /\ d.gets = 0
                ELSE /\ d.pc = "L132"
                     /\ d.page = 1 /\ d.gets = 1 /\ d.attempt = 0]_vars

\* a call has returned the record stored 3599 seconds earlier, without a GET
C3_Witness ==
    \E p \in Procs :
        /\ calls[p].pc = "done" /\ calls[p].page = 0 /\ calls[p].gets = 0
        /\ ~IsNone(_cache[calls[p].ticker])
        /\ now - Val(_cache[calls[p].ticker])[2] = 3599
        /\ calls[p].ret = Some(Val(_cache[calls[p].ticker])[1])

\* C4: a response whose status is neither 200 nor 429 ends _fetch_page: it
\* returns absent at once, with no further GET, whatever the number of
\* attempts made.
C4_OtherStatusNotRetried ==
    [][\A p \in Procs :
        Respond(p, "other", NoDataPage) =>
            /\ Returned(calls[p], calls'[p])
            /\ IsNone(DataOf(calls'[p], calls[p].page))]_vars

\* C5: a call of _fetch_page sends at most 3 GETs; a 200 response ends it
\* with the page text (handed to the extractor); when the third attempt
\* fails it ends with absent, directly or, after a 429, once the backoff
\* sleep is over.
C5_AtMostThreeGets ==
    [][\A p \in Procs :
        LET c == calls[p]
            d == calls'[p]
        IN  /\ d.gets <= 3
            /\ \A html \in Site(c.page) :
                  (d # c /\ Respond(p, "200", html)) =>
                      /\ Returned(c, d)
                      /\ DataOf(d, c.page) = _extract_financial_data(html)
            /\ (d # c /\ c.gets = 3
                    /\ (\E o \in {"other", "HTTPError"} : Respond(p, o, NoDataPage))) =>
                  (Returned(c, d) /\ IsNone(DataOf(d, c.page)))
            /\ (c.gets = 3 /\ c.pc = "L136" /\ Wake(p)) =>
                  (Returned(c, d) /\ IsNone(DataOf(d, c.page)))]_vars

\* the fetch of the income page has ended with absent after three GETs
C5_Witness ==
    \E p \in Procs :
        /\ calls[p].pc = "L171" /\ calls[p].gets = 3
        /\ IsNone(calls[p].income_data)

\* a cache entry changes only when a pipeline that produced a record writes
\* it, or when the cache is cleared
WrittenOnlyOnSuccess ==
    \A t \in Tickers :
        _cache'[t] # _cache[t] =>
            \/ IsNone(_cache'[t])
            \/ \E p \in Procs :
                  /\ Completes(calls[p], calls'[p])
                  /\ calls'[p].ticker = t /\ ~IsNone(calls'[p].ret)
                  /\ _cache'[t] = Some(<<Val(calls'[p].ret), now>>)

\* a pipeline that ends without a record leaves the whole cache as it was
FailureLeavesCache ==
    \A p \in Procs :
        (Completes(calls[p], calls'[p]) /\ IsNone(calls'[p].ret)) => _cache' = _cache

\* C8 as the specification words it: after a cache miss the call returns
\* absent exactly when the income dataset is absent (None); the cache is
\* written only when a record was produced and a failed pipeline leaves it
\* unchanged.
C8_AbsentIffIncomeAbsent ==
    /\ [](\A p \in Procs :
            (calls[p].pc = "done" /\ calls[p].page = 3) =>
                (IsNone(calls[p].ret) <=> IsNone(calls[p].income_data)))
    /\ [][WrittenOnlyOnSuccess /\ FailureLeavesCache]_vars

\* C8, amended: after a cache miss the call returns absent exactly when the
\* income dataset is absent or empty (a financialData block without fields);
\* absent balance-sheet or cash-flow datasets still yield a record; the cache
\* is written only when a record was produced and a failed pipeline leaves
\* it unchanged, expired entries included.
C8_AbsentIffIncomeFalsy ==
    /\ [](\A p \in Procs :
            (calls[p].pc = "done" /\ calls[p].page = 3) =>
                (IsNone(calls[p].ret) <=>
                    (IsNone(calls[p].income_data) \/ Val(calls[p].income_data) = EmptyDict)))
    /\ [][WrittenOnlyOnSuccess /\ FailureLeavesCache]_vars

\* a pipeline has failed on an empty income dataset while the cache holds an
\* expired entry for its ticker
C8_Witness ==
    \E p \in Procs :
        /\ calls[p].pc = "done" /\ calls[p].page = 3
        /\ IsNone(calls[p].ret)
        /\ calls[p].income_data = Some(EmptyDict)
        /\ ~IsNone(_cache[calls[p].ticker])
        /\ now - Val(_cache[calls[p].ticker])[2] >= 3600

\* C9: every pipeline that ends with a record overwrites the entry of its
\* ticker with that record and the time of its end, whatever the entry held
\* and whichever other calls are running for the ticker; an entry never
\* changes otherwise, except to be cleared.
C9_LastWriteWins ==
    [][/\ \A p \in Procs :
            (Completes(calls[p], calls'[p]) /\ ~IsNone(calls'[p].ret)) =>
                _cache'[calls'[p].ticker] = Some(<<Val(calls'[p].ret), now>>)
       /\ WrittenOnlyOnSuccess]_vars

\* two calls for one ticker ran their pipelines side by side: the first has
\* ended and written the entry, the second is still fetching its third page
\* and will overwrite it
C9_Witness ==
    /\ calls[1].pc = "done" /\ calls[1].page = 3 /\ ~IsNone(calls[1].ret)
    /\ calls[2].pc = "L132" /\ calls[2].page = 3
    /\ calls[2].ticker = calls[1].ticker
    /\ ~Falsy(calls[2].income_data)
    /\ _cache[calls[1].ticker] = Some(<<Val(calls[1].ret), now>>)

---------------------------------------------------------------------------
(* The extractor's property, under SpecExtract.                             *)

\* the primary strategy fails: its pattern is not found, or the repaired
\* block does not parse
PrimaryFails(html) == IsNone(html.fd) \/ ~Val(html.fd).ok

\* C6: whenever the primary strategy fails, for either reason, the result of
\* the extraction is the one of the fallback (the looser block search, then
\* the per-field array scan); so a page without the primary pattern whose
\* scan finds arrays of known fields yields a dataset, not absent.
C6_FallbackWheneverPrimaryFails ==
    ~IsNone(extracted) =>
        /\ PrimaryFails(page) => Val(extracted) = _extract_financial_data_fallback(page)
        /\ (IsNone(page.fd) /\ ~IsNone(ArrayScan(page))) => ~IsNone(Val(extracted))

---------------------------------------------------------------------------
(* The alignment's properties, under SpecAlign.                             *)

\* the number at 0-based index j of the array of key, None when there is no
\* such entry or j is "none" (-1)
EntryAt(data, key, j) ==
    IF j >= 0 /\ Has(data, key) /\ j < Len(data[key]) THEN Some(data[key][j + 1].n) ELSE None

FiscalYears(data) == IF Has(data, "fiscalYear") THEN Len(data["fiscalYear"]) ELSE 0

\* the alignment rule: <<current, previous>> for a fiscal-year array of n
\* entries, previous = -1 for none
RuleSkipTTM(n) == IF n >= 3 THEN <<1, 2>> ELSE IF n = 2 THEN <<0, 1>> ELSE <<0, -1>>

\* the balance sheet's alignment: never a TTM entry to skip
RuleNoTTM(n) == IF n >= 2 THEN <<0, 1>> ELSE <<0, -1>>

IncomeAligned(r, income) ==
    LET idx == RuleSkipTTM(FiscalYears(income))
    IN  /\ r.revenue = EntryAt(income, "revenue", idx[1])
        /\ r.pat = EntryAt(income, "netinc", idx[1])
        /\ r.eps = EntryAt(income, "epsBasic", idx[1])
        /\ r.dps = EntryAt(income, "dps", idx[1])
        /\ r.prev_revenue = EntryAt(income, "revenue", idx[2])
        /\ r.prev_pat = EntryAt(income, "netinc", idx[2])
        /\ r.prev_eps = EntryAt(income, "epsBasic", idx[2])
        /\ r.prev_dps = EntryAt(income, "dps", idx[2])

BalanceAligned(r, balance, idx) ==
    /\ r.total_debt = EntryAt(balance, "debt", idx[1])
    /\ r.shareholder_equity = EntryAt(balance, "equity", idx[1])
    /\ r.prev_total_debt = EntryAt(balance, "debt", idx[2])
    /\ r.prev_shareholder_equity = EntryAt(balance, "equity", idx[2])

CashflowAligned(r, cashflow) ==
    LET idx == RuleSkipTTM(FiscalYears(cashflow))
    IN  /\ r.operating_cash_flow = EntryAt(cashflow, "ncfo", idx[1])
        /\ r.prev_operating_cash_flow = EntryAt(cashflow, "ncfo", idx[2])

\* a pipeline has produced a record
Produced(c) == c.pc = "done" /\ c.page = 3 /\ ~IsNone(c.ret)

\* C7 as the specification words it: the fields of a record come from the
\* indices the rule (3 or more fiscal years: 1 and 2; 2: 0 and 1; fewer: 0
\* and none) gives for each of its three datasets, each by its own
\* fiscal-year array.
C7_SameRuleForAllThree ==
    \A p \in Procs :
        LET c == calls[p]
        IN  Produced(c) =>
                /\ IncomeAligned(Val(c.ret), Val(c.income_data))
                /\ ~Falsy(c.balance_data) =>
                      BalanceAligned(Val(c.ret), Val(c.balance_data),
                                     RuleSkipTTM(FiscalYears(Val(c.balance_data))))
                /\ ~Falsy(c.cashflow_data) =>
                      CashflowAligned(Val(c.ret), Val(c.cashflow_data))

\* C7, amended: the rule gives the indices for the income and the cash-flow
\* datasets, each by its own fiscal-year array; the balance-sheet fields
\* always come from index 0 (current) and, with 2 or more fiscal years,
\* index 1 (previous).
C7_BalanceSheetNotSkipped ==
    \A p \in Procs :
        LET c == calls[p]
        IN  Produced(c) =>
                /\ IncomeAligned(Val(c.ret), Val(c.income_data))
                /\ ~Falsy(c.balance_data) =>
                      BalanceAligned(Val(c.ret), Val(c.balance_data),
                                     RuleNoTTM(FiscalYears(Val(c.balance_data))))
                /\ ~Falsy(c.cashflow_data) =>
                      CashflowAligned(Val(c.ret), Val(c.cashflow_data))

\* a record made of an income and a cash-flow dataset of 4 fiscal years
\* (indices 1 and 2 read) and a balance sheet of 4 fiscal years (indices 0
\* and 1 read)
C7_Witness ==
    \E p \in Procs :
        LET c == calls[p]
        IN  /\ Produced(c)
            /\ FiscalYears(Val(c.income_data)) = 4
            /\ Val(c.ret).revenue = Some(101) /\ Val(c.ret).prev_revenue = Some(102)
            /\ ~Falsy(c.balance_data) /\ FiscalYears(Val(c.balance_data)) = 4
            /\ Val(c.ret).total_debt = Some(500) /\ Val(c.ret).prev_total_debt = Some(501)
            /\ ~Falsy(c.cashflow_data) /\ FiscalYears(Val(c.cashflow_data)) = 4
            /\ Val(c.ret).operating_cash_flow = Some(701)
            /\ Val(c.ret).prev_operating_cash_flow = Some(702)

---------------------------------------------------------------------------
(* The backoff of _fetch_page, under Spec.                                  *)

\* C11: a 429 response to the n-th GET (n = 1, 2, 3) starts a sleep of 5 x n
\* seconds; an httpx.HTTPError starts a sleep of 2 seconds, except on the
\* third attempt, which ends _fetch_page at once; and every backoff sleep is
\* followed by another GET of the same page: there is no sleep after the
\* last attempt.
C11_SleepThenRetry ==
    [][\A p \in Procs :
        LET c == calls[p]
            d == calls'[p]
        IN  /\ Respond(p, "429", NoDataPage) =>
                  (d.pc = "L136" /\ d.sleep = 5000 * c.gets)
            /\ Respond(p, "HTTPError", NoDataPage) =>
                  IF c.gets < 3 THEN d.pc = "L140" /\ d.sleep = 2000
                  ELSE Returned(c, d) /\ IsNone(DataOf(d, c.page))
            /\ (c.pc \in {"L136", "L140"} /\ Wake(p)) =>
                  /\ d.pc = "L132"
                  /\ d.page = c.page
                  /\ d.gets = c.gets + 1]_vars

---------------------------------------------------------------------------
(* The evaluators one pair of fields at a time: the record handed to        *)
(* analyze_stock has two of its fields drawn from EvalAmounts (or missing), *)
(* the pair read by one evaluator, and every other field missing.           *)

\* negative, zero and positive amounts, with 94, 95, 100, 105 around the
\* -5%, 0% and +5% changes from 100
EvalAmounts == {-100, -1, 0, 94, 95, 100, 105}

\* the pairs of fields the evaluators read: <<current, previous>> for the
\* year-over-year rules, <<numerator, denominator>> for the ratios
Slots ==
    {<<"revenue", "prev_revenue">>, <<"pat", "prev_pat">>, <<"eps", "prev_eps">>,
     <<"dps", "prev_dps">>, <<"operating_cash_flow", "prev_operating_cash_flow">>,
     <<"dps", "eps">>, <<"total_debt", "shareholder_equity">>,
     <<"pat", "shareholder_equity">>}

EvaluatedRecord(slot, a, b) ==
    [StockFinancials("DANGCEM", "Dangote Cement") EXCEPT ![slot[1]] = a, ![slot[2]] = b]

InitEvaluate ==
    /\ \E slot \in Slots, a \in Opt(EvalAmounts), b \in Opt(EvalAmounts) :
          fin = EvaluatedRecord(slot, a, b)
    /\ result = None
    /\ ExtractorIdle
    /\ CallsIdle

NextEvaluate == Analyze

SpecEvaluate == InitEvaluate /\ [][NextEvaluate]_vars

\* the year-over-year change of the rules table: defined when both values
\* are present and previous is not 0
YoYDefined(cur, prev) == ~IsNone(cur) /\ ~IsNone(prev) /\ Val(prev) # 0

\* (cur - prev) / |prev| x 100 compared with k percent, for a defined change
YoYGe(cur, prev, k) == (Val(cur) - Val(prev)) * 100 >= k * Abs(Val(prev))
YoYGt(cur, prev, k) == (Val(cur) - Val(prev)) * 100 > k * Abs(Val(prev))

Positive(v) == ~IsNone(v) /\ Val(v) > 0

ZeroOrAbsent(v) == IsNone(v) \/ Val(v) = 0

\* C12: the DPS metric is green exactly when current DPS > 0 and the change
\* is undefined or at least -5%; red when the change is below -5% or when
\* current DPS is 0 or absent and previous DPS > 0; yellow when current DPS
\* is 0 or absent and previous DPS <= 0; never green unless current DPS > 0.
C12_DpsSignal ==
    Analysed =>
        LET m == Val(result).metrics[4]
            cur == fin.dps
            prev == fin.prev_dps
            def == YoYDefined(cur, prev)
        IN  /\ m.signal = GREEN <=> (Positive(cur) /\ (~def \/ YoYGe(cur, prev, -5)))
            /\ ((def /\ ~YoYGe(cur, prev, -5)) \/ (ZeroOrAbsent(cur) /\ Positive(prev)))
                  => m.signal = RED
            /\ (ZeroOrAbsent(cur) /\ ~IsNone(prev) /\ Val(prev) <= 0) => m.signal = YELLOW
            /\ ~Positive(cur) => m.signal # GREEN

\* C13: the Operating Cash Flow metric is green exactly when current OCF > 0
\* and the change is undefined or above 0; yellow when current OCF > 0 and
\* the change is 0 or below, and when current OCF is absent; red when
\* current OCF < 0; never green unless current OCF > 0.
C13_OcfSignal ==
    Analysed =>
        LET m == Val(result).metrics[8]
            cur == fin.operating_cash_flow
            prev == fin.prev_operating_cash_flow
            def == YoYDefined(cur, prev)
        IN  /\ m.signal = GREEN <=> (Positive(cur) /\ (~def \/ YoYGt(cur, prev, 0)))
            /\ (Positive(cur) /\ def /\ ~YoYGt(cur, prev, 0)) => m.signal = YELLOW
            /\ IsNone(cur) => m.signal = YELLOW
            /\ (~IsNone(cur) /\ Val(cur) < 0) => m.signal = RED
            /\ ~Positive(cur) => m.signal # GREEN

\* the change a metric reports is the one of the formula: None when either
\* value is absent or previous = 0, else the fraction equal to
\* (cur - prev) x 100 / |prev|
ChangeOf(m, cur, prev) ==
    IF YoYDefined(cur, prev)
    THEN /\ ~IsNone(m.yoy_change)
         /\ Val(m.yoy_change).d > 0
         /\ Val(m.yoy_change).n * Abs(Val(prev)) = (Val(cur) - Val(prev)) * 100 * Val(m.yoy_change).d
    ELSE IsNone(m.yoy_change)

\* C14: the year-over-year change is undefined (None, not 0) when either
\* value is absent or previous = 0, and equals (current - previous) /
\* |previous| x 100 otherwise, for every metric that reports _pct_change's
\* result; and analyze_stock never divides by zero, in _pct_change or in the
\* payout, debt-to-equity and ROE ratios.
C14_PctChange ==
    ~IsNone(result) =>
        /\ ~IsException(Val(result))
        /\ LET ms == Val(result).metrics
           IN  /\ ChangeOf(ms[1], fin.revenue, fin.prev_revenue)
               /\ ChangeOf(ms[2], fin.pat, fin.prev_pat)
               /\ ChangeOf(ms[3], fin.eps, fin.prev_eps)
               /\ ~ZeroOrAbsent(fin.dps) => ChangeOf(ms[4], fin.dps, fin.prev_dps)
               /\ ~IsNone(fin.operating_cash_flow) =>
                     ChangeOf(ms[8], fin.operating_cash_flow, fin.prev_operating_cash_flow)

\* a record with revenue 105 and previous revenue 0 has been analysed: the
\* change is undefined
C14_Witness ==
    /\ Analysed
    /\ fin.revenue = Some(105) /\ fin.prev_revenue = Some(0)
    /\ IsNone(Val(result).metrics[1].yoy_change)

---------------------------------------------------------------------------
(* clear_cache and the calls in flight, under Spec.                         *)

\* the step is a clear: an entry is removed, or a running call notes it
ClearStep ==
    \/ \E t \in Tickers : ~IsNone(_cache[t]) /\ IsNone(_cache'[t])
    \/ \E p \in Procs : ~calls[p].survived /\ calls'[p].survived

\* C15: a clear leaves the store empty and every call where it was, neither
\* cancelled nor restarted; a call that ends with a record writes it with
\* the time of its end, whether or not a clear has run since it started;
\* and a call that finds a fresh entry is served its record.
C15_ClearKeepsPipelines ==
    [][/\ ClearStep =>
            /\ \A t \in Tickers : IsNone(_cache'[t])
            /\ \A p \in Procs :
                  calls'[p] = [calls[p] EXCEPT !.survived = calls'[p].survived]
       /\ \A p \in Procs :
            LET c == calls[p]
                d == calls'[p]
            IN  /\ (Completes(c, d) /\ ~IsNone(d.ret)) =>
                      _cache'[d.ticker] = Some(<<Val(d.ret), now>>)
                /\ (c.pc = "idle" /\ d.pc # "idle" /\ ~IsNone(_cache[d.ticker])
                        /\ now - Val(_cache[d.ticker])[2] < 3600) =>
                      (d.pc = "done" /\ d.ret = Some(Val(_cache[d.ticker])[1]))]_vars

\* a call that was running when the cache was cleared has ended and written
\* its record; the other call, which sent no GET, has been served that
\* record from the entry
C15_Witness ==
    \E p \in Procs, q \in Procs :
        /\ calls[p].pc = "done" /\ calls[p].page = 3
        /\ calls[p].survived /\ ~IsNone(calls[p].ret)
        /\ calls[q].pc = "done" /\ calls[q].page = 0
        /\ calls[q].ticker = calls[p].ticker
        /\ calls[q].ret = calls[p].ret
        /\ ~IsNone(_cache[calls[p].ticker])
        /\ Val(_cache[calls[p].ticker])[1] = Val(calls[p].ret)

=============================================================================
